---------------------------- MODULE Spec2Model ----------------------------
(***************************************************************************)
(* The validated weather-fetch proxy of the weather dashboard:             *)
(*   src/app/api/weather/route.ts  (GET, fetchWithRetry, sleep)            *)
(*   src/lib/open-meteo.ts         (isValidAU_NZCoords, buildUrl)          *)
(*   src/lib/schema.ts             (ZHourly, ZDaily)                       *)
(* One handler invocation per request id; every request owns its slice of  *)
(* each variable.  Numbers are JavaScript numbers restricted to NaN,       *)
(* +/-Infinity and decimals with four fractional digits, the latter held    *)
(* as integers in units of 1/10000 degree.                                 *)
(***************************************************************************)
EXTENDS Integers, Sequences, FiniteSets, TLC

\* ------------------------------------------------------------------------
\* Bounds of the model
\* ------------------------------------------------------------------------

\* Number of handler invocations the model holds.
NumRequests == 2

\* Longest `time` array of an upstream payload.
MaxTimeLen == 1

RequestIds == 1..NumRequests

\* ------------------------------------------------------------------------
\* JavaScript values
\* ------------------------------------------------------------------------

\* Optional string-like value: searchParams.get() returns null or a string.
None == [present |-> FALSE, value |-> ""]

Some(v) == [present |-> TRUE, value |-> v]

\* vars is split on commas, so its text is held as a sequence of characters.
NoChars == [present |-> FALSE, value |-> << >>]

\* JavaScript numbers.
Num(v) == [kind |-> "num", v |-> v]

NaN == [kind |-> "nan", v |-> 0]

PosInfinity == [kind |-> "inf", v |-> 1]

NegInfinity == [kind |-> "inf", v |-> -1]

\* x >= c and x <= c for a JavaScript number x and a finite c (in 1/10000):
\* every comparison with NaN is false.
Geq(x, c) == \/ x.kind = "num" /\ x.v >= c
             \/ x.kind = "inf" /\ x.v = 1

Leq(x, c) == \/ x.kind = "num" /\ x.v <= c
             \/ x.kind = "inf" /\ x.v = -1

\* Number(text), on the texts the model sends as lat and lon.
Number(s) ==
    CASE s = ""           -> Num(0)
      [] s = " "          -> Num(0)
      [] s = "0"          -> Num(0)
      [] s = "invalid"    -> NaN
      [] s = "NaN"        -> NaN
      [] s = "Infinity"   -> PosInfinity
      [] s = "-Infinity"  -> NegInfinity
      [] s = "-36.8509"   -> Num(-368509)
      [] s = "-33.86880"  -> Num(-338688)
      [] s = "-33.8688"   -> Num(-338688)
      [] s = "-43.6"      -> Num(-436000)
      [] s = "35.6762"    -> Num(356762)
      [] s = "174.7645"   -> Num(1747645)
      [] s = "151.2093"   -> Num(1512093)
      [] s = "139.6503"   -> Num(1396503)
      [] s = "-10.7"      -> Num(-107000)
      [] s = "-43.6001"   -> Num(-436001)
      [] s = "-47.3"      -> Num(-473000)
      [] s = "-34.4"      -> Num(-344000)
      [] s = "-34.3999"   -> Num(-343999)
      [] s = "113.3"      -> Num(1133000)
      [] s = "153.6"      -> Num(1536000)
      [] s = "166.4"      -> Num(1664000)
      [] s = "178.6"      -> Num(1786000)
      [] s = "-37.8136"   -> Num(-378136)
      [] s = "144.9631"   -> Num(1449631)
      [] s = "-27.4698"   -> Num(-274698)
      [] s = "153.0251"   -> Num(1530251)
      [] s = "-41.2865"   -> Num(-412865)
      [] s = "174.7762"   -> Num(1747762)
      [] OTHER            -> NaN

\* String(n): the shortest decimal text of n.
String(n) ==
    CASE n = NaN              -> "NaN"
      [] n = PosInfinity      -> "Infinity"
      [] n = NegInfinity      -> "-Infinity"
      [] n = Num(0)           -> "0"
      [] n = Num(-368509)     -> "-36.8509"
      [] n = Num(-338688)     -> "-33.8688"
      [] n = Num(-436000)     -> "-43.6"
      [] n = Num(356762)      -> "35.6762"
      [] n = Num(1747645)     -> "174.7645"
      [] n = Num(1512093)     -> "151.2093"
      [] n = Num(1396503)     -> "139.6503"
      [] n = Num(-107000)     -> "-10.7"
      [] n = Num(-436001)     -> "-43.6001"
      [] n = Num(-473000)     -> "-47.3"
      [] n = Num(-344000)     -> "-34.4"
      [] n = Num(-343999)     -> "-34.3999"
      [] n = Num(1133000)     -> "113.3"
      [] n = Num(1536000)     -> "153.6"
      [] n = Num(1664000)     -> "166.4"
      [] n = Num(1786000)     -> "178.6"
      [] n = Num(-378136)     -> "-37.8136"
      [] n = Num(1449631)     -> "144.9631"
      [] n = Num(-274698)     -> "-27.4698"
      [] n = Num(1530251)     -> "153.0251"
      [] n = Num(-412865)     -> "-41.2865"
      [] n = Num(1747762)     -> "174.7762"

isNaN_NeverNaN(x) == FALSE

isNaN(x) == x.kind = "nan"

\* !param of an optional string: null and "" are falsy.
Falsy_NullOnly(p) == ~p.present

Falsy(p) == ~p.present \/ p.value = ""

\* ------------------------------------------------------------------------
\* src/lib/open-meteo.ts
\* ------------------------------------------------------------------------

BASE == "https://api.open-meteo.com/v1/forecast"

isValidAU_NZCoords_NoNorthEdge(c) ==
    LET isAustralia ==
            Geq(c.lat, -436000) /\ Geq(c.lon, 1133000) /\ Leq(c.lon, 1536000)
        isNewZealand ==
            Geq(c.lat, -473000) /\ Leq(c.lat, -344000)
            /\ Geq(c.lon, 1664000) /\ Leq(c.lon, 1786000)
    IN  isAustralia \/ isNewZealand

isValidAU_NZCoords_AustraliaOnly(c) ==
    /\ Geq(c.lat, -436000) /\ Leq(c.lat, -107000)
    /\ Geq(c.lon, 1133000) /\ Leq(c.lon, 1536000)

isValidAU_NZCoords(c) ==
    LET isAustralia ==
            Geq(c.lat, -436000) /\ Leq(c.lat, -107000)
            /\ Geq(c.lon, 1133000) /\ Leq(c.lon, 1536000)
        isNewZealand ==
            Geq(c.lat, -473000) /\ Leq(c.lat, -344000)
            /\ Geq(c.lon, 1664000) /\ Leq(c.lon, 1786000)
    IN  isAustralia \/ isNewZealand

Join_FirstOnly(list) == IF list = << >> THEN << >> ELSE list[1]

\* Array.prototype.join(','): the segments with a comma between neighbours.
RECURSIVE Join(_)
Join(list) ==
    IF list = << >> THEN << >>
    ELSE IF Len(list) = 1 THEN list[1]
    ELSE list[1] \o <<",">> \o Join(Tail(list))

DefaultHourlyVars ==
    << <<"temperature_2m">>, <<"precipitation">>, <<"windspeed_10m">> >>

DefaultDailyVars ==
    << <<"temperature_2m_max">>, <<"temperature_2m_min">>,
       <<"precipitation_sum">>, <<"windspeed_10m_max">> >>

NoUrl ==
    [base |-> "", latitude |-> "", longitude |-> "", timezone |-> "",
     hourly |-> NoChars, daily |-> NoChars,
     start_date |-> None, end_date |-> None]

\* An Error object, or any other thrown value (isError = FALSE).
Error(m) == [isError |-> TRUE, message |-> m]

NoError == [isError |-> FALSE, message |-> ""]

\* buildUrl(coords, granularity, params): the URL as its base and decoded
\* query parameters, or the Error it throws.
buildUrl(c, granularity, params) ==
    IF ~isValidAU_NZCoords(c)
    THEN [threw |-> TRUE,
          error |-> Error("Coordinates must be within Australia or New Zealand bounds"),
          url |-> NoUrl]
    ELSE [threw |-> FALSE,
          error |-> NoError,
          url |->
            [base |-> BASE,
             latitude |-> String(c.lat),
             longitude |-> String(c.lon),
             timezone |-> IF params.tz.present THEN params.tz.value ELSE "auto",
             hourly |->
                IF granularity = "hourly"
                THEN Some(Join(IF params.vars.present THEN params.vars.value
                                                      ELSE DefaultHourlyVars))
                ELSE NoChars,
             daily |->
                IF granularity = "daily"
                THEN Some(Join(IF params.vars.present THEN params.vars.value
                                                      ELSE DefaultDailyVars))
                ELSE NoChars,
             start_date |-> IF Falsy(params.start) THEN None ELSE params.start,
             end_date |-> IF Falsy(params.end) THEN None ELSE params.end]]

\* ------------------------------------------------------------------------
\* src/lib/schema.ts : decoded JSON payloads and the two zod schemas
\* ------------------------------------------------------------------------

\* A decoded JSON value is held by its shape.  A payload is null, a scalar or
\* an object; an object has the keys hourly and daily (each absent, null, a
\* scalar or an object) and further keys (extras, as key/value pairs); the
\* object under hourly or daily has the key time (absent, a scalar or an
\* array of strings and numbers) and further keys.
TimeElems ==
    { [type |-> "string", repr |-> "2025-01-21T00:00"],
      [type |-> "number", repr |-> "123"] }

NoTime == [kind |-> "absent", elems |-> << >>]

NoSection == [kind |-> "absent", time |-> NoTime, extras |-> {}]

NoPayload == [kind |-> "none", hourly |-> NoSection, daily |-> NoSection, extras |-> {}]

Issue(path, index, message) == [path |-> path, index |-> index, message |-> message]

ZTimeIssues_AnyElement(t, path) ==
    IF t.kind = "absent" THEN << Issue(path, -1, "Required") >>
    ELSE IF t.kind # "array"
         THEN << Issue(path, -1, "Expected array, received string") >>
    ELSE << >>

\* z.array(z.string()) on the value under `time`; path is the path of time.
\* An element issue carries the element's 0-based index (-1: no index).
ZTimeIssues(t, path) ==
    IF t.kind = "absent" THEN << Issue(path, -1, "Required") >>
    ELSE IF t.kind # "array"
         THEN << Issue(path, -1, "Expected array, received string") >>
    ELSE LET bad == SelectSeq([i \in 1..Len(t.elems) |-> i],
                              LAMBDA i : t.elems[i].type # "string")
         IN  [k \in 1..Len(bad) |->
                Issue(path, bad[k] - 1, "Expected string, received number")]

\* z.object({ time: ... }).passthrough() on the value under key g.
ZSectionIssues(sec, g) ==
    IF sec.kind = "absent" THEN << Issue(<<g>>, -1, "Required") >>
    ELSE IF sec.kind = "null"
         THEN << Issue(<<g>>, -1, "Expected object, received null") >>
    ELSE IF sec.kind # "object"
         THEN << Issue(<<g>>, -1, "Expected object, received string") >>
    ELSE ZTimeIssues(sec.time, <<g, "time">>)

\* The parsed value of the inner object: passthrough() keeps unknown keys.
ZSectionOutput_Strip(sec) == [sec EXCEPT !.extras = {}]

ZSectionOutput(sec) == sec

\* z.object({ g: ... }).safeParse(data).  The outer object is a plain
\* z.object: unknown keys of the payload are not part of the parsed value.
ZObjectParse(g, data) ==
    LET issues ==
            IF data.kind = "undefined"
            THEN << Issue(<< >>, -1, "Required") >>
            ELSE IF data.kind = "null"
            THEN << Issue(<< >>, -1, "Expected object, received null") >>
            ELSE IF data.kind # "object"
                 THEN << Issue(<< >>, -1, "Expected object, received string") >>
            ELSE ZSectionIssues(data[g], g)
    IN  IF issues # << >>
        THEN [success |-> FALSE, errors |-> issues, data |-> NoPayload]
        ELSE [success |-> TRUE, errors |-> << >>,
              data |-> [kind |-> "object",
                        hourly |-> IF g = "hourly" THEN ZSectionOutput(data.hourly)
                                                   ELSE NoSection,
                        daily |-> IF g = "daily" THEN ZSectionOutput(data.daily)
                                                 ELSE NoSection,
                        extras |-> {}]]

ZHourly(data) == ZObjectParse("hourly", data)

ZDaily(data) == ZObjectParse("daily", data)

\* ------------------------------------------------------------------------
\* src/app/api/weather/route.ts : inputs
\* ------------------------------------------------------------------------

\* The query of a request, one optional text per parameter.
LatParams ==
    { None, Some(""), Some(" "), Some("invalid"), Some("NaN"), Some("Infinity"),
      Some("0"), Some("-36.8509"), Some("-33.86880") }

LonParams ==
    { None, Some(""), Some("invalid"), Some("-Infinity"),
      Some("0"), Some("174.7645"), Some("151.2093") }

GranParams == { None, Some("hourly"), Some("daily"), Some("weekly") }

VarsParams ==
    { NoChars, Some(<< >>), Some(<<",">>),
      Some(<<"temperature_2m", ",", "precipitation">>) }

\* start and end: neither, both, or start alone.
DateParams ==
    { <<None, None>>, <<Some("2025-01-01"), Some("2025-01-07")>>,
      <<Some("2025-01-01"), None>> }

Queries ==
    { [lat |-> la, lon |-> lo, gran |-> g, vars |-> v, start |-> d[1], end |-> d[2]] :
        la \in LatParams, lo \in LonParams, g \in GranParams,
        v \in VarsParams, d \in DateParams }

NoQuery ==
    [lat |-> None, lon |-> None, gran |-> None,
     vars |-> NoChars, start |-> None, end |-> None]

\* What one call of fetch() can do: resolve with an ok response, resolve with
\* a non-ok response, or reject with a thrown value.
NoRes == [ok |-> FALSE, status |-> 0]

Outcomes ==
    { [kind |-> "ok", response |-> [ok |-> TRUE, status |-> 200], error |-> NoError],
      [kind |-> "nonok", response |-> [ok |-> FALSE, status |-> 500], error |-> NoError],
      [kind |-> "throw", response |-> NoRes, error |-> Error("Network error")],
      [kind |-> "throw", response |-> NoRes, error |-> Error("fetch failed")],
      [kind |-> "throw", response |-> NoRes,
       error |-> [isError |-> FALSE, message |-> "aborted"]] }

\* All sequences over S of length at most n.
SeqsUpTo(S, n) == UNION { [1..k -> S] : k \in 0..n }

TimeValues ==
    { NoTime, [kind |-> "scalar", elems |-> << >>] }
    \cup { [kind |-> "array", elems |-> e] : e \in SeqsUpTo(TimeElems, MaxTimeLen) }

SectionExtras == { {}, { <<"temperature_2m", "[20.5]">> } }

\* Further keys accompany a time array.
Sections ==
    { NoSection,
      [kind |-> "null", time |-> NoTime, extras |-> {}],
      [kind |-> "scalar", time |-> NoTime, extras |-> {}] }
    \cup { sec \in [kind : {"object"}, time : TimeValues, extras : SectionExtras] :
             sec.extras # {} => sec.time.kind = "array" }

TopExtras == { {}, { <<"timezone", "Pacific/Auckland">> } }

\* The decoded bodies an ok response can carry: null, a scalar, or an object
\* with one of the two sections (or both, well-formed) and further keys.
Payloads ==
    { [kind |-> "null", hourly |-> NoSection, daily |-> NoSection, extras |-> {}],
      [kind |-> "scalar", hourly |-> NoSection, daily |-> NoSection, extras |-> {}] }
    \cup { p \in [kind : {"object"}, hourly : Sections, daily : Sections,
                  extras : TopExtras] :
             \/ p.daily = NoSection
             \/ p.hourly = NoSection
             \/ /\ p.hourly.kind = "object" /\ p.daily.kind = "object"
                /\ p.hourly = p.daily
                /\ p.hourly.time.kind = "array"
                /\ p.hourly.time.elems # << >>
                /\ p.hourly.extras # {} }

\* res.json() resolves with the decoded payload or rejects with a SyntaxError.
Bodies ==
    { [parseable |-> FALSE, payload |-> NoPayload] }
    \cup { [parseable |-> TRUE, payload |-> p] : p \in Payloads }

\* ------------------------------------------------------------------------
\* src/app/api/weather/route.ts : fetchWithRetry and GET
\* ------------------------------------------------------------------------

maxAttempts_OneMore == 3 + 1

\* Default of fetchWithRetry's maxAttempts; GET never passes another value.
maxAttempts == 3

delays == <<1000, 2000, 4000>>

\* `attempt < maxAttempts - 1`: a failed attempt that is not the last one is
\* followed by a sleep.
NotLastAttempt_NeverSleeps(a) == FALSE

NotLastAttempt_OffByOne(a) == a < maxAttempts

NotLastAttempt(a) == a < maxAttempts - 1

\* What fetchWithRetry does once the loop has run out of attempts; last is the
\* response of the final attempt.
AfterLoop_ReturnLast(last) == [threw |-> FALSE, error |-> NoError, response |-> last]

AfterLoop_WithCount(last) ==
    [threw |-> TRUE, error |-> Error("All 3 retry attempts failed"), response |-> NoRes]

AfterLoop(last) ==
    [threw |-> TRUE, error |-> Error("All retry attempts failed"), response |-> NoRes]

\* String.prototype.split(','): the texts between the commas.
RECURSIVE Split(_)
Split(s) ==
    IF \A i \in 1..Len(s) : s[i] # ","
    THEN << s >>
    ELSE LET i == CHOOSE j \in 1..Len(s) :
                    s[j] = "," /\ \A k \in 1..(j - 1) : s[k] # ","
         IN  << SubSeq(s, 1, i - 1) >> \o Split(SubSeq(s, i + 1, Len(s)))

NonEmpty(x) == x # << >>

ParseVars_EmptyIsAbsent(varsParam) ==
    IF ~varsParam.present \/ varsParam.value = << >> THEN NoChars
    ELSE Some(SelectSeq(Split(varsParam.value), NonEmpty))

\* varsParam?.split(',').filter(Boolean)
ParseVars(varsParam) ==
    IF ~varsParam.present THEN NoChars
    ELSE Some(SelectSeq(Split(varsParam.value), NonEmpty))

\* searchParams.get('gran') ?? 'hourly'
Gran(q) == IF q.gran.present THEN q.gran.value ELSE "hourly"

Coords(q) == [lat |-> Number(q.lat.value), lon |-> Number(q.lon.value)]

\* A response of the handler: NextResponse.json(body, { status }).
Resp(status, error, message, details, data) ==
    [status |-> status, error |-> error, message |-> message,
     details |-> details, data |-> data]

NoResponse == Resp(0, "", "", << >>, NoPayload)

MissingResponse ==
    Resp(400, "Missing required parameters: lat and lon", "", << >>, NoPayload)

InvalidResponse ==
    Resp(400, "Invalid coordinates: lat and lon must be numbers", "", << >>, NoPayload)

RegionResponse ==
    Resp(400, "Coordinates must be within Australia or New Zealand bounds", "",
         << >>, NoPayload)

UpstreamResponse == Resp(502, "Upstream error", "", << >>, NoPayload)

SchemaResponse_AsUpstream(errors) == Resp(502, "Upstream error", "", << >>, NoPayload)

SchemaResponse(errors) == Resp(500, "Invalid schema", "", errors, NoPayload)

SuccessResponse(data) == Resp(200, "", "", << >>, data)

CatchResponse_AsInternal(err) ==
    Resp(500, "Internal server error", "", << >>, NoPayload)

CatchResponse_NoMessage(err) ==
    IF err.isError
    THEN Resp(502, "Failed to fetch weather data", "", << >>, NoPayload)
    ELSE Resp(500, "Internal server error", "", << >>, NoPayload)

\* GET's catch block.
CatchResponse(err) ==
    IF err.isError
    THEN Resp(502, "Failed to fetch weather data", err.message, << >>, NoPayload)
    ELSE Resp(500, "Internal server error", "", << >>, NoPayload)

\* ------------------------------------------------------------------------
\* State
\* ------------------------------------------------------------------------

VARIABLES
    query,      \* query[r]: the query parameters of request r
    pc,         \* pc[r]: where the handler of request r stands
    attempt,    \* attempt[r]: fetchWithRetry's loop counter
    calls,      \* calls[r]: fetch() calls issued so far
    inflight,   \* inflight[r]: fetch() calls issued and not yet settled
    slept,      \* slept[r]: the sleeps started so far, in ms
    outcomes,   \* outcomes[r]: how each settled fetch() call ended
    res,        \* res[r]: the response of the latest settled call
    url,        \* url[r]: the URL buildUrl returned
    data,       \* data[r]: the decoded body
    response,   \* response[r]: the handler's response
    invoked,    \* invoked[r]: the calls of buildUrl and of the schemas, in order
    lib,        \* one direct call of a library function: arguments and result
    dash        \* one rendering of the dashboard page

vars == <<query, pc, attempt, calls, inflight, slept, outcomes, res, url, data,
          response, invoked, lib, dash>>

\* No library function is called directly, no page is rendered.
NoLib == [fn |-> "none"]

NoDash == [pc |-> "none"]

NoParams == [vars |-> NoChars, start |-> None, end |-> None, tz |-> None]

\* One entry of invoked: the function called and, for buildUrl, its arguments.
Call(fn, gran, params) == [fn |-> fn, gran |-> gran, params |-> params]

Terminal == {"Success", "Failed"}

\* The handler returns resp and ends in state final.
Return_KeepsRunning(r, resp, final) ==
    /\ response' = [response EXCEPT ![r] = resp]
    /\ UNCHANGED pc

Return_Shared(r, resp, final) ==
    /\ response' = [s \in RequestIds |-> resp]
    /\ pc' = [pc EXCEPT ![r] = final]

Return(r, resp, final) ==
    /\ response' = [response EXCEPT ![r] = resp]
    /\ pc' = [pc EXCEPT ![r] = final]

InitHandlerFrom(started, queries) ==
    /\ query \in { [r \in RequestIds |-> IF r \in started THEN f[r] ELSE NoQuery] :
                     f \in [started -> queries] }
    /\ pc = [r \in RequestIds |-> IF r \in started THEN "ParsingParams" ELSE "Idle"]
    /\ attempt = [r \in RequestIds |-> 0]
    /\ calls = [r \in RequestIds |-> 0]
    /\ inflight = [r \in RequestIds |-> 0]
    /\ slept = [r \in RequestIds |-> << >>]
    /\ outcomes = [r \in RequestIds |-> << >>]
    /\ res = [r \in RequestIds |-> NoRes]
    /\ url = [r \in RequestIds |-> NoUrl]
    /\ data = [r \in RequestIds |-> NoPayload]
    /\ response = [r \in RequestIds |-> NoResponse]
    /\ invoked = [r \in RequestIds |-> << >>]

InitHandler(started) == InitHandlerFrom(started, Queries)

InitWith(started) ==
    /\ InitHandler(started)
    /\ lib = NoLib
    /\ dash = NoDash

\* One request has arrived.
Init == InitWith({1})

\* GET: extract the parameters, check that lat and lon are there and numeric.
ParseParams(r) ==
    /\ pc[r] = "ParsingParams"
    /\ IF Falsy(query[r].lat) \/ Falsy(query[r].lon)
       THEN Return(r, MissingResponse, "Failed")
       ELSE IF isNaN(Coords(query[r]).lat) \/ isNaN(Coords(query[r]).lon)
            THEN Return(r, InvalidResponse, "Failed")
            ELSE /\ pc' = [pc EXCEPT ![r] = "ValidatingCoordinates"]
                 /\ UNCHANGED response
    /\ UNCHANGED <<query, attempt, calls, inflight, slept, outcomes, res, url, data, invoked,
                 lib, dash>>

\* GET: the region check.
ValidateCoordinates(r) ==
    /\ pc[r] = "ValidatingCoordinates"
    /\ IF ~isValidAU_NZCoords(Coords(query[r]))
       THEN Return(r, RegionResponse, "Failed")
       ELSE /\ pc' = [pc EXCEPT ![r] = "BuildingUrl"]
            /\ UNCHANGED response
    /\ UNCHANGED <<query, attempt, calls, inflight, slept, outcomes, res, url, data, invoked,
                 lib, dash>>

\* GET: parse vars, build the upstream URL, call fetchWithRetry(url).
BuildUrl(r) ==
    /\ pc[r] = "BuildingUrl"
    /\ LET q == query[r]
           params == [vars |-> ParseVars(q.vars), start |-> q.start,
                      end |-> q.end, tz |-> None]
           built == buildUrl(Coords(q), Gran(q), params)
       IN  /\ invoked' = [invoked EXCEPT ![r] =
                             Append(@, Call("buildUrl", Gran(q), params))]
           /\ IF built.threw
              THEN /\ Return(r, CatchResponse(built.error), "Failed")
                   /\ UNCHANGED <<url, attempt>>
              ELSE /\ url' = [url EXCEPT ![r] = built.url]
                   /\ attempt' = [attempt EXCEPT ![r] = 0]
                   /\ pc' = [pc EXCEPT ![r] = "Fetching"]
                   /\ UNCHANGED response
    /\ UNCHANGED <<query, calls, inflight, slept, outcomes, res, data, lib, dash>>

\* GET after fetchWithRetry has returned resp: the res.ok check, then the
\* body is read.
AfterFetch(r, resp) ==
    IF ~resp.ok
    THEN Return(r, UpstreamResponse, "Failed")
    ELSE /\ pc' = [pc EXCEPT ![r] = "Decoding"]
         /\ UNCHANGED response

\* fetchWithRetry: the loop test; fetch(url) is called, or the loop is over.
FetchAttempt(r) ==
    /\ pc[r] = "Fetching"
    /\ IF attempt[r] < maxAttempts
       THEN /\ calls' = [calls EXCEPT ![r] = @ + 1]
            /\ inflight' = [inflight EXCEPT ![r] = @ + 1]
            /\ pc' = [pc EXCEPT ![r] = "AwaitFetch"]
            /\ UNCHANGED response
       ELSE /\ IF AfterLoop(res[r]).threw
               THEN Return(r, CatchResponse(AfterLoop(res[r]).error), "Failed")
               ELSE AfterFetch(r, AfterLoop(res[r]).response)
            /\ UNCHANGED <<calls, inflight>>
    /\ UNCHANGED <<query, attempt, slept, outcomes, res, url, data, invoked,
                 lib, dash>>

\* fetchWithRetry: the awaited fetch() settles in one of the given ways.
FetchSettleFrom(r, ways) ==
    /\ pc[r] = "AwaitFetch"
    /\ \E o \in ways :
         /\ inflight' = [inflight EXCEPT ![r] = @ - 1]
         /\ outcomes' = [outcomes EXCEPT ![r] = Append(@, o)]
         /\ res' = [res EXCEPT ![r] = o.response]
         /\ IF o.kind = "ok"
            THEN /\ AfterFetch(r, o.response)
                 /\ UNCHANGED <<attempt, slept>>
            ELSE IF NotLastAttempt(attempt[r])
                 THEN /\ slept' = [slept EXCEPT ![r] = Append(@, delays[attempt[r] + 1])]
                      /\ pc' = [pc EXCEPT ![r] = "Sleeping"]
                      /\ UNCHANGED <<attempt, response>>
                 ELSE IF o.kind = "throw"
                      THEN /\ Return(r, CatchResponse(o.error), "Failed")
                           /\ UNCHANGED <<attempt, slept>>
                      ELSE /\ attempt' = [attempt EXCEPT ![r] = @ + 1]
                           /\ pc' = [pc EXCEPT ![r] = "Fetching"]
                           /\ UNCHANGED <<slept, response>>
    /\ UNCHANGED <<query, calls, url, data, invoked,
                 lib, dash>>

FetchSettle(r) == FetchSettleFrom(r, Outcomes)

\* fetchWithRetry: the sleep is over, the loop goes on with the next attempt.
SleepDone(r) ==
    /\ pc[r] = "Sleeping"
    /\ attempt' = [attempt EXCEPT ![r] = @ + 1]
    /\ pc' = [pc EXCEPT ![r] = "Fetching"]
    /\ UNCHANGED <<query, calls, inflight, slept, outcomes, res, url, data, response, invoked,
                 lib, dash>>

\* GET: await res.json(), the body being one of the given ones.
DecodeBodyFrom(r, bodies) ==
    /\ pc[r] = "Decoding"
    /\ \E b \in bodies :
         IF ~b.parseable
         THEN /\ Return(r, CatchResponse(Error("Unexpected token < in JSON at position 0")),
                        "Failed")
              /\ UNCHANGED data
         ELSE /\ data' = [data EXCEPT ![r] = b.payload]
              /\ pc' = [pc EXCEPT ![r] = "ValidatingSchema"]
              /\ UNCHANGED response
    /\ UNCHANGED <<query, attempt, calls, inflight, slept, outcomes, res, url, invoked,
                 lib, dash>>

DecodeBody(r) == DecodeBodyFrom(r, Bodies)

SelectSchema_AlwaysHourly(gran) == "ZHourly"

\* gran === 'hourly' ? ZHourly : ZDaily
SelectSchema(gran) == IF gran = "hourly" THEN "ZHourly" ELSE "ZDaily"

ApplySchema(schema, payload) ==
    IF schema = "ZHourly" THEN ZHourly(payload) ELSE ZDaily(payload)

\* GET: validate the body with the schema the granularity selects.
ValidateSchema(r) ==
    /\ pc[r] = "ValidatingSchema"
    /\ LET schema == SelectSchema(Gran(query[r]))
           parsed == ApplySchema(schema, data[r])
       IN  /\ invoked' = [invoked EXCEPT ![r] = Append(@, Call(schema, "", NoParams))]
           /\ IF ~parsed.success
              THEN Return(r, SchemaResponse(parsed.errors), "Failed")
              ELSE Return(r, SuccessResponse(parsed.data), "Success")
    /\ UNCHANGED <<query, attempt, calls, inflight, slept, outcomes, res, url, data, lib, dash>>

Next ==
    \/ \E r \in RequestIds : ParseParams(r)
    \/ \E r \in RequestIds : ValidateCoordinates(r)
    \/ \E r \in RequestIds : BuildUrl(r)
    \/ \E r \in RequestIds : FetchAttempt(r)
    \/ \E r \in RequestIds : FetchSettle(r)
    \/ \E r \in RequestIds : SleepDone(r)
    \/ \E r \in RequestIds : DecodeBody(r)
    \/ \E r \in RequestIds : ValidateSchema(r)

Spec == Init /\ [][Next]_vars

\* ------------------------------------------------------------------------
\* src/app/api/weather/route.ts : two requests in flight at once
\* ------------------------------------------------------------------------

\* The two requests that arrive together.
ConcRequests == {1, 2}

ConcQueries ==
    { [lat |-> Some("-36.8509"), lon |-> Some("174.7645"), gran |-> None,
       vars |-> NoChars, start |-> None, end |-> None],
      [lat |-> Some("-33.86880"), lon |-> Some("151.2093"), gran |-> Some("daily"),
       vars |-> Some(<<"temperature_2m", ",", "precipitation">>),
       start |-> Some("2025-01-01"), end |-> Some("2025-01-07")],
      [lat |-> Some("0"), lon |-> Some("0"), gran |-> None,
       vars |-> NoChars, start |-> None, end |-> None] }

ConcOutcomes ==
    { [kind |-> "ok", response |-> [ok |-> TRUE, status |-> 200], error |-> NoError],
      [kind |-> "nonok", response |-> [ok |-> FALSE, status |-> 500], error |-> NoError],
      [kind |-> "throw", response |-> NoRes, error |-> Error("Network error")] }

\* A body that is no JSON, the body null, and a body whose hourly and daily
\* sections are both well-formed.
ConcBodies ==
    { [parseable |-> FALSE, payload |-> NoPayload],
      [parseable |-> TRUE,
       payload |-> [kind |-> "null", hourly |-> NoSection, daily |-> NoSection,
                    extras |-> {}]],
      [parseable |-> TRUE,
       payload |-> [kind |-> "object",
                    hourly |-> [kind |-> "object",
                                time |-> [kind |-> "array", elems |-> << >>],
                                extras |-> {}],
                    daily |-> [kind |-> "object",
                               time |-> [kind |-> "array", elems |-> << >>],
                               extras |-> {}],
                    extras |-> {}]] }

InitConc ==
    /\ InitHandlerFrom(ConcRequests, ConcQueries)
    /\ lib = NoLib
    /\ dash = NoDash

\* One step of request r.
StepConc(r) ==
    \/ ParseParams(r)
    \/ ValidateCoordinates(r)
    \/ BuildUrl(r)
    \/ FetchAttempt(r)
    \/ FetchSettleFrom(r, ConcOutcomes)
    \/ SleepDone(r)
    \/ DecodeBodyFrom(r, ConcBodies)
    \/ ValidateSchema(r)

NextConc ==
    \/ \E r \in RequestIds : ParseParams(r)
    \/ \E r \in RequestIds : ValidateCoordinates(r)
    \/ \E r \in RequestIds : BuildUrl(r)
    \/ \E r \in RequestIds : FetchAttempt(r)
    \/ \E r \in RequestIds : FetchSettleFrom(r, ConcOutcomes)
    \/ \E r \in RequestIds : SleepDone(r)
    \/ \E r \in RequestIds : DecodeBodyFrom(r, ConcBodies)
    \/ \E r \in RequestIds : ValidateSchema(r)

SpecConc == InitConc /\ [][NextConc]_vars

\* Every fetch settles, every sleep ends and the handler's own code runs on:
\* a request that can take a step eventually takes one.
SpecLive == SpecConc /\ \A r \in ConcRequests : WF_vars(StepConc(r))

\* ------------------------------------------------------------------------
\* src/lib/schema.ts called directly: ZHourly.safeParse / ZDaily.safeParse
\* ------------------------------------------------------------------------

Undefined == [kind |-> "undefined", hourly |-> NoSection, daily |-> NoSection, extras |-> {}]

\* The values a schema is applied to: undefined, null, a scalar, and objects
\* with any combination of the two sections and further keys.
SchemaInputs ==
    { Undefined,
      [kind |-> "null", hourly |-> NoSection, daily |-> NoSection, extras |-> {}],
      [kind |-> "scalar", hourly |-> NoSection, daily |-> NoSection, extras |-> {}] }
    \cup [kind : {"object"}, hourly : Sections, daily : Sections, extras : TopExtras]

NoResult == [success |-> FALSE, errors |-> << >>, data |-> NoPayload]

InitSchema ==
    /\ InitHandler({})
    /\ dash = NoDash
    /\ lib \in { [fn |-> f, input |-> p, applied |-> FALSE, result |-> NoResult] :
                    f \in {"ZHourly", "ZDaily"}, p \in SchemaInputs }

\* schema.safeParse(input)
SchemaApply ==
    /\ lib.fn \in {"ZHourly", "ZDaily"}
    /\ ~lib.applied
    /\ lib' = [lib EXCEPT !.applied = TRUE, !.result = ApplySchema(lib.fn, lib.input)]
    /\ UNCHANGED <<query, pc, attempt, calls, inflight, slept, outcomes, res, url, data,
                   response, invoked, dash>>

NextSchema == SchemaApply

SpecSchema == InitSchema /\ [][NextSchema]_vars

\* ------------------------------------------------------------------------
\* src/lib/open-meteo.ts called directly: buildUrl(coords, granularity, params)
\* ------------------------------------------------------------------------

\* Latitudes and longitudes (in 1/10000 degree): the edges of the two
\* rectangles, their nearest neighbours outside, points well inside and
\* outside, and the non-finite numbers.
LatValues ==
    { NaN, PosInfinity, NegInfinity, Num(0), Num(356762), Num(-368509),
      Num(-107000), Num(-106999), Num(-436000), Num(-436001),
      Num(-473000), Num(-473001), Num(-344000), Num(-343999) }

LonValues ==
    { NaN, PosInfinity, NegInfinity, Num(0), Num(1396503), Num(1747645),
      Num(1133000), Num(1132999), Num(1536000), Num(1536001),
      Num(1664000), Num(1663999), Num(1786000), Num(1786001) }

Granularities == { "hourly", "daily" }

\* BuildUrlParams: each option omitted or supplied; vars omitted, the empty
\* list, or a list of names.
BuildUrlParams ==
    [ vars  : { NoChars, Some(<< >>), Some(<< <<"temperature_2m">>, <<"precipitation">> >>) },
      start : { None, Some(""), Some("2025-01-01") },
      end   : { None, Some("2025-01-07") },
      tz    : { None, Some(""), Some("Pacific/Auckland") } ]

NoBuilt == [threw |-> FALSE, error |-> NoError, url |-> NoUrl]

InitBuildUrl ==
    /\ InitHandler({})
    /\ dash = NoDash
    /\ lib \in { [fn |-> "buildUrl", coords |-> [lat |-> la, lon |-> lo], gran |-> g,
                   params |-> ps, applied |-> FALSE, result |-> NoBuilt] :
                    la \in LatValues, lo \in LonValues, g \in Granularities,
                    ps \in BuildUrlParams }

\* buildUrl(coords, granularity, params)
BuildUrlApply ==
    /\ lib.fn = "buildUrl"
    /\ ~lib.applied
    /\ lib' = [lib EXCEPT !.applied = TRUE,
                          !.result = buildUrl(lib.coords, lib.gran, lib.params)]
    /\ UNCHANGED <<query, pc, attempt, calls, inflight, slept, outcomes, res, url, data,
                   response, invoked, dash>>

NextBuildUrl == BuildUrlApply

SpecBuildUrl == InitBuildUrl /\ [][NextBuildUrl]_vars

\* isValidAU_NZCoords called directly.
InitCoords ==
    /\ InitHandler({})
    /\ dash = NoDash
    /\ lib \in { [fn |-> "isValidAU_NZCoords", coords |-> [lat |-> la, lon |-> lo],
                   applied |-> FALSE, result |-> FALSE] :
                    la \in LatValues, lo \in LonValues }

\* isValidAU_NZCoords(coords)
CoordsApply ==
    /\ lib.fn = "isValidAU_NZCoords"
    /\ ~lib.applied
    /\ lib' = [lib EXCEPT !.applied = TRUE, !.result = isValidAU_NZCoords(lib.coords)]
    /\ UNCHANGED <<query, pc, attempt, calls, inflight, slept, outcomes, res, url, data,
                   response, invoked, dash>>

NextCoords == CoordsApply

SpecCoords == InitCoords /\ [][NextCoords]_vars

\* ------------------------------------------------------------------------
\* src/lib/locations.ts
\* ------------------------------------------------------------------------

NoLocation == [found |-> FALSE, label |-> "", hasCoords |-> FALSE,
               lat |-> NaN, lon |-> NaN]

Location(label, lat, lon) ==
    [found |-> TRUE, label |-> label, hasCoords |-> TRUE, lat |-> lat, lon |-> lon]

\* Object.keys(PRESETS)
getAllLocationIds ==
    << <<"auckland">>, <<"sydney">>, <<"melbourne">>, <<"brisbane">>, <<"wellington">> >>

\* PRESETS is an object literal: besides its own keys it has the keys of
\* Object.prototype, of which these are some.
ObjectPrototypeKeys == { <<"constructor">>, <<"toString">>, <<"hasOwnProperty">> }

\* PRESETS[id]: an own key gives its location; a key PRESETS inherits from
\* Object.prototype gives a value that is defined but has no label, lat or
\* lon; any other key gives undefined.
getLocationById(id) ==
    CASE id = <<"auckland">>    -> Location("Auckland, NZ", Num(-368509), Num(1747645))
      [] id = <<"sydney">>      -> Location("Sydney, AU", Num(-338688), Num(1512093))
      [] id = <<"melbourne">>   -> Location("Melbourne, AU", Num(-378136), Num(1449631))
      [] id = <<"brisbane">>    -> Location("Brisbane, AU", Num(-274698), Num(1530251))
      [] id = <<"wellington">>  -> Location("Wellington, NZ", Num(-412865), Num(1747762))
      [] id \in ObjectPrototypeKeys -> [NoLocation EXCEPT !.found = TRUE]
      [] OTHER                  -> NoLocation

\* id in PRESETS: own and inherited keys alike.
isValidLocationId(id) ==
    \/ \E i \in 1..Len(getAllLocationIds) : getAllLocationIds[i] = id
    \/ id \in ObjectPrototypeKeys

\* The ids the two lookups are called with: the presets, other spellings of
\* them, the empty string, other cities and keys of Object.prototype.
LocationIds ==
    { getAllLocationIds[i] : i \in 1..Len(getAllLocationIds) }
    \cup { << >>, <<"Auckland">>, <<"SYDNEY">>, <<"invalid-city">>, <<"tokyo">> }
    \cup ObjectPrototypeKeys

\* One call of isValidLocationId and one of getLocationById.
InitLocations ==
    /\ InitHandler({})
    /\ dash = NoDash
    /\ lib \in { [fn |-> "locations", validId |-> a, getId |-> b,
                   validApplied |-> FALSE, getApplied |-> FALSE,
                   valid |-> FALSE, location |-> NoLocation] :
                    a \in LocationIds, b \in LocationIds }

\* isValidLocationId(validId)
ValidIdApply ==
    /\ lib.fn = "locations"
    /\ ~lib.validApplied
    /\ lib' = [lib EXCEPT !.validApplied = TRUE, !.valid = isValidLocationId(lib.validId)]
    /\ UNCHANGED <<query, pc, attempt, calls, inflight, slept, outcomes, res, url, data,
                   response, invoked, dash>>

\* getLocationById(getId)
GetByIdApply ==
    /\ lib.fn = "locations"
    /\ ~lib.getApplied
    /\ lib' = [lib EXCEPT !.getApplied = TRUE, !.location = getLocationById(lib.getId)]
    /\ UNCHANGED <<query, pc, attempt, calls, inflight, slept, outcomes, res, url, data,
                   response, invoked, dash>>

NextLocations == ValidIdApply \/ GetByIdApply

SpecLocations == InitLocations /\ [][NextLocations]_vars

\* ------------------------------------------------------------------------
\* src/app/dashboard/page.tsx
\* ------------------------------------------------------------------------

\* Times are held in seconds; a day is 1000 * 60 * 60 * 24 milliseconds.
DayLength == 60 * 60 * 24

NoDate == [valid |-> FALSE, t |-> 0]

At(days, seconds) == [valid |-> TRUE, t |-> days * DayLength + seconds]

\* new Date(text).getTime(), in seconds after 2025-01-01T00:00:00Z; an
\* Invalid Date has the time NaN.
DateParse(text) ==
    CASE text = "2024-12-31"           -> At(-1, 0)
      [] text = "2025-01-01"           -> At(0, 0)
      [] text = "2025-01-08"           -> At(7, 0)
      [] text = "2025-01-31"           -> At(30, 0)
      [] text = "2025-01-31T00:00:01Z" -> At(30, 1)
      [] text = "2025-02-01"           -> At(31, 0)
      [] text = "2025-02-07"           -> At(37, 0)
      [] OTHER                         -> NoDate

\* The day the page is rendered, as toISOString().split('T')[0] gives it.
Todays == { "2025-01-01", "2025-01-31" }

\* endDate.setDate(today.getDate() + 7), formatted.
SevenDaysAfter(today) ==
    CASE today = "2025-01-01" -> "2025-01-08"
      [] today = "2025-01-31" -> "2025-02-07"

getDefaultDateRange(today) == [start |-> today, end |-> SevenDaysAfter(today)]

getDefaultVariables(granularity) ==
    IF granularity = "hourly"
    THEN << <<"temperature_2m">>, <<"precipitation">>, <<"windspeed_10m">> >>
    ELSE << <<"temperature_2m_max">>, <<"temperature_2m_min">>, <<"precipitation_sum">> >>

\* Math.ceil(a / b) for a >= 0, b > 0.
Ceil(a, b) == (a + b - 1) \div b

Validation(isValid, error, days) == [isValid |-> isValid, error |-> error, days |-> days]

validateDateRange_FloorDays(start, end) ==
    LET startDate == DateParse(start)
        endDate == DateParse(end)
        diffDays == (endDate.t - startDate.t) \div DayLength
    IN  IF ~startDate.valid \/ ~endDate.valid
        THEN Validation(FALSE, "Invalid date format", 0)
        ELSE IF startDate.t > endDate.t
        THEN Validation(FALSE, "Start date must be before end date", 0)
        ELSE IF diffDays > 30
        THEN Validation(FALSE, "Date range exceeds maximum of 30 days", diffDays)
        ELSE Validation(TRUE, "", 0)

\* validateDateRange(start, end); days is the number the third message names.
validateDateRange(start, end) ==
    LET startDate == DateParse(start)
        endDate == DateParse(end)
        diffDays == Ceil(endDate.t - startDate.t, DayLength)
    IN  IF ~startDate.valid \/ ~endDate.valid
        THEN Validation(FALSE, "Invalid date format", 0)
        ELSE IF startDate.t > endDate.t
        THEN Validation(FALSE, "Start date must be before end date", 0)
        ELSE IF diffDays > 30
        THEN Validation(FALSE, "Date range exceeds maximum of 30 days", diffDays)
        ELSE Validation(TRUE, "", 0)

\* searchParams of the page: each key undefined or a text.
CityParams ==
    { NoChars, Some(<< >>), Some(<<"auckland">>), Some(<<"constructor">>),
      Some(<<"auckland", ",", "sydney">>), Some(<<"atlantis", ",", "wellington">>) }

DashGranParams == { None, Some("daily") }

DashVarsParams == { NoChars, Some(<< >>), Some(<<"precipitation", ",">>) }

DashDateParams ==
    { None, Some(""), Some("invalid"), Some("2024-12-31"), Some("2025-01-01"),
      Some("2025-01-31"), Some("2025-01-31T00:00:01Z"), Some("2025-02-01") }

DashParams ==
    [city : CityParams, gran : DashGranParams, vars : DashVarsParams,
     start : DashDateParams, end : DashDateParams]

NoQs == [lat |-> "", lon |-> "", gran |-> "", vars |-> << >>, start |-> "", end |-> ""]

\* One call of fetchCityWeather: state is "fetching" (fetch awaited),
\* "decoding" (response.json() awaited), "null" or "data" (what it returned);
\* fetched tells whether fetch was called, qs with which query string, ok
\* whether the response was ok.
CityCall(id, label, state, fetched, qs) ==
    [id |-> id, label |-> label, state |-> state, fetched |-> fetched, qs |-> qs,
     ok |-> FALSE]

\* fetchCityWeather up to its first await.
fetchCityWeather(cityId, gran, vs, start, end) ==
    LET location == getLocationById(cityId)
    IN  IF ~location.found
        THEN CityCall(cityId, "", "null", FALSE, NoQs)
        ELSE CityCall(cityId, location.label, "fetching", TRUE,
                      [lat |-> IF location.hasCoords THEN String(location.lat)
                                                     ELSE "undefined",
                       lon |-> IF location.hasCoords THEN String(location.lon)
                                                     ELSE "undefined",
                       gran |-> gran, vars |-> Join(vs), start |-> start, end |-> end])

InitDash ==
    /\ InitHandler({})
    /\ lib = NoLib
    /\ dash \in { [pc |-> "Parsing", today |-> d, params |-> ps, start |-> "", end |-> "",
                    validation |-> Validation(TRUE, "", 0), cities |-> << >>,
                    weatherData |-> << >>] :
                     d \in Todays, ps \in DashParams }

\* DashboardPage from the parameters to `await Promise.all`: the defaults, the
\* date validation and, when it passes, one fetchCityWeather call per city.
DashStart ==
    /\ dash.pc = "Parsing"
    /\ LET ps == dash.params
           cities == Split(IF ps.city.present THEN ps.city.value ELSE <<"auckland">>)
           gran == IF ps.gran.present THEN ps.gran.value ELSE "hourly"
           vs == IF ps.vars.present /\ ps.vars.value # << >>
                 THEN SelectSeq(Split(ps.vars.value), NonEmpty)
                 ELSE getDefaultVariables(gran)
           defaultDateRange == getDefaultDateRange(dash.today)
           start == IF ps.start.present THEN ps.start.value ELSE defaultDateRange.start
           end == IF ps.end.present THEN ps.end.value ELSE defaultDateRange.end
           dateValidation == validateDateRange(start, end)
       IN  IF ~dateValidation.isValid
           THEN dash' = [dash EXCEPT !.pc = "DateRangeError", !.start = start,
                                     !.end = end, !.validation = dateValidation]
           ELSE dash' = [dash EXCEPT !.pc = "AwaitingAll", !.start = start,
                                     !.end = end, !.validation = dateValidation,
                                     !.cities = [i \in 1..Len(cities) |->
                                        fetchCityWeather(cities[i], gran, vs, start, end)]]
    /\ UNCHANGED <<query, pc, attempt, calls, inflight, slept, outcomes, res, url, data,
                   response, invoked, lib>>

\* fetch(url) of city i settles: an ok response, a non-ok response, or a
\* rejection.
DashFetchSettle(i) ==
    /\ dash.pc = "AwaitingAll"
    /\ i \in DOMAIN dash.cities
    /\ dash.cities[i].state = "fetching"
    /\ \E way \in {"ok", "nonok", "throw"} :
         dash' = [dash EXCEPT !.cities[i].state =
                                 IF way = "ok" THEN "decoding" ELSE "null",
                              !.cities[i].ok = (way = "ok")]
    /\ UNCHANGED <<query, pc, attempt, calls, inflight, slept, outcomes, res, url, data,
                   response, invoked, lib>>

\* response.json() of city i settles: the data, or a rejection.
DashJsonSettle(i) ==
    /\ dash.pc = "AwaitingAll"
    /\ i \in DOMAIN dash.cities
    /\ dash.cities[i].state = "decoding"
    /\ \E parseable \in BOOLEAN :
         dash' = [dash EXCEPT !.cities[i].state = IF parseable THEN "data" ELSE "null"]
    /\ UNCHANGED <<query, pc, attempt, calls, inflight, slept, outcomes, res, url, data,
                   response, invoked, lib>>

\* Promise.all has resolved: the null results are filtered out.
DashRender ==
    /\ dash.pc = "AwaitingAll"
    /\ \A i \in DOMAIN dash.cities : dash.cities[i].state \in {"null", "data"}
    /\ dash' = [dash EXCEPT !.pc = "Rendered",
                            !.weatherData =
                               SelectSeq(dash.cities, LAMBDA c : c.state # "null")]
    /\ UNCHANGED <<query, pc, attempt, calls, inflight, slept, outcomes, res, url, data,
                   response, invoked, lib>>

\* The cities the page can name at once.
CityIndexes == 1..2

NextDash ==
    \/ DashStart
    \/ \E i \in CityIndexes : DashFetchSettle(i)
    \/ \E i \in CityIndexes : DashJsonSettle(i)
    \/ DashRender

SpecDash == InitDash /\ [][NextDash]_vars

\* ------------------------------------------------------------------------
\* The weather requests the dashboard issues for the preset cities, served
\* by the handler
\* ------------------------------------------------------------------------

\* The query strings fetchCityWeather builds for the preset cities.
PresetQueries ==
    { LET call == fetchCityWeather(getAllLocationIds[i], g,
                                   IF given THEN << <<"precipitation">> >>
                                            ELSE getDefaultVariables(g),
                                   "2025-01-01", "2025-01-08")
      IN  [lat |-> Some(call.qs.lat), lon |-> Some(call.qs.lon),
           gran |-> Some(call.qs.gran), vars |-> Some(call.qs.vars),
           start |-> Some(call.qs.start), end |-> Some(call.qs.end)] :
        i \in 1..Len(getAllLocationIds), g \in Granularities, given \in BOOLEAN }

InitPreset ==
    /\ InitHandlerFrom({1}, PresetQueries)
    /\ lib = NoLib
    /\ dash = NoDash

SpecPreset == InitPreset /\ [][NextConc]_vars

\* ------------------------------------------------------------------------
\* Properties
\* ------------------------------------------------------------------------

Last(seq) == seq[Len(seq)]

\* The attempts of request r that ended with an ok response.
OkAttempts(r) == { i \in 1..Len(outcomes[r]) : outcomes[r][i].kind = "ok" }

\* The attempts of request r that ended with a non-ok response or an error.
FailedAttempts(r) == { i \in 1..Len(outcomes[r]) : outcomes[r][i].kind # "ok" }

Min(S) == CHOOSE x \in S : \A y \in S : x <= y

\* fetchWithRetry was called and has returned or thrown.
FetchOver(r) ==
    /\ outcomes[r] # << >>
    /\ pc[r] \in {"Decoding", "ValidatingSchema", "Success", "Failed"}

\* All three attempts of request r ended with a non-ok response.
AllNonOk(r) ==
    /\ Len(outcomes[r]) = 3
    /\ \A i \in 1..3 : outcomes[r][i].kind = "nonok"

\* C1: fetchWithRetry issues exactly min(i+1, 3) network calls, i the 0-based
\* index of the first ok outcome (3 calls when there is none); it returns the
\* first ok response and issues no attempt after it.
C1_AttemptCount ==
    \A r \in RequestIds :
        /\ calls[r] <= 3
        /\ \A i \in OkAttempts(r) :
              /\ i = Len(outcomes[r])
              /\ calls[r] = i
              /\ inflight[r] = 0
              /\ res[r] = outcomes[r][i].response
              /\ pc[r] \in {"Decoding", "ValidatingSchema", "Success", "Failed"}
        /\ FetchOver(r) =>
              calls[r] = IF OkAttempts(r) # {} THEN Min(OkAttempts(r)) ELSE 3

C1_Witness ==
    \E r \in RequestIds :
        /\ pc[r] = "Success"
        /\ calls[r] = 3
        /\ OkAttempts(r) = {3}

\* C2: after failed attempt k < maxAttempts-1 the sleep is 1000*2^k ms and
\* attempt k+1 starts only after it; no sleep follows the final attempt or an
\* ok response.
C2_Backoff ==
    \A r \in RequestIds :
        LET fails == Cardinality(FailedAttempts(r))
            n == IF fails < 2 THEN fails ELSE 2
        IN  /\ slept[r] = [k \in 1..n |-> 1000 * 2^(k - 1)]
            /\ calls[r] <= Len(slept[r]) + 1
            /\ pc[r] = "Sleeping" =>
                  /\ calls[r] = Len(slept[r])
                  /\ inflight[r] = 0
                  /\ Last(outcomes[r]).kind # "ok"

C2_Witness ==
    \E r \in RequestIds :
        /\ slept[r] = <<1000, 2000>>
        /\ Len(outcomes[r]) = 3
        /\ pc[r] \in Terminal

\* C3 as stated: HTTP 500 on all three attempts is answered with 502
\* "Upstream error" after exactly 3 network calls.
C3_UpstreamError ==
    \A r \in RequestIds :
        (AllNonOk(r) /\ pc[r] \in Terminal) =>
            /\ response[r].status = 502
            /\ response[r].error = "Upstream error"
            /\ calls[r] = 3

\* C3 amended: HTTP 500 on all three attempts is answered with 502 "Failed to
\* fetch weather data" after exactly 3 network calls, and no request is ever
\* answered with "Upstream error".
C3_Amended ==
    \A r \in RequestIds :
        /\ (AllNonOk(r) /\ pc[r] \in Terminal) =>
              /\ response[r].status = 502
              /\ response[r].error = "Failed to fetch weather data"
              /\ calls[r] = 3
        /\ response[r].error # "Upstream error"

C3_Witness ==
    \E r \in RequestIds :
        /\ AllNonOk(r)
        /\ pc[r] = "Failed"
        /\ calls[r] = 3

\* C4: when every attempt returns a non-ok response, fetchWithRetry throws
\* after the third attempt (not before) and the handler answers 502 with error
\* exactly "Failed to fetch weather data", fetch having been called 3 times.
C4_AllNonOk ==
    \A r \in RequestIds :
        /\ (AllNonOk(r) /\ pc[r] \in Terminal) =>
              /\ response[r] = [status |-> 502,
                                error |-> "Failed to fetch weather data",
                                message |-> "All retry attempts failed",
                                details |-> << >>,
                                data |-> NoPayload]
              /\ calls[r] = 3
              /\ attempt[r] = 3
        /\ ( /\ Len(outcomes[r]) \in 1..2
             /\ \A i \in 1..Len(outcomes[r]) : outcomes[r][i].kind = "nonok" ) =>
              pc[r] \notin Terminal

C4_Witness ==
    \E r \in RequestIds :
        /\ AllNonOk(r)
        /\ response[r].message = "All retry attempts failed"

\* C5: a transport error (an Error) of the third attempt is what
\* fetchWithRetry fails with: the handler answers 502 "Failed to fetch weather
\* data" with that error's message; a transport error of an earlier attempt
\* is retried and not surfaced.
C5_FinalTransportError ==
    \A r \in RequestIds :
        LET o == outcomes[r]
        IN  /\ ( /\ Len(o) = 3
                 /\ o[3].kind = "throw"
                 /\ o[3].error.isError ) =>
                  /\ pc[r] = "Failed"
                  /\ response[r].status = 502
                  /\ response[r].error = "Failed to fetch weather data"
                  /\ response[r].message = o[3].error.message
            /\ ( /\ Len(o) \in 1..2
                 /\ Last(o).kind = "throw" ) =>
                  /\ pc[r] \in {"Sleeping", "Fetching", "AwaitFetch"}
                  /\ response[r] = NoResponse

C5_Witness ==
    \E r \in RequestIds :
        LET o == outcomes[r]
        IN  /\ Len(o) = 3
            /\ o[1].kind = "throw" /\ o[3].kind = "throw"
            /\ o[1].error.isError /\ o[3].error.isError
            /\ o[1].error.message # o[3].error.message
            /\ response[r].message = o[3].error.message

\* lat or lon is absent or empty.
MissingQ(q) ==
    \/ ~q.lat.present \/ q.lat.value = ""
    \/ ~q.lon.present \/ q.lon.value = ""

\* lat or lon does not convert to a number.
NonNumericQ(q) == Number(q.lat.value).kind = "nan" \/ Number(q.lon.value).kind = "nan"

\* x is a finite number within [lo, hi].
Within(x, lo, hi) == x.kind = "num" /\ lo <= x.v /\ x.v <= hi

\* The point is in neither the Australia nor the New Zealand rectangle.
OutsideQ(q) ==
    LET lat == Number(q.lat.value)
        lon == Number(q.lon.value)
    IN  ~ \/ Within(lat, -436000, -107000) /\ Within(lon, 1133000, 1536000)
          \/ Within(lat, -473000, -344000) /\ Within(lon, 1664000, 1786000)

\* C6: a request that parameter validation rejects makes no network call; no
\* fetch attempt occurs before the three checks have passed.
C6_NoFetchOnRejected ==
    \A r \in RequestIds :
        /\ ( /\ pc[r] # "Idle"
             /\ MissingQ(query[r]) \/ NonNumericQ(query[r]) \/ OutsideQ(query[r]) ) =>
              /\ calls[r] = 0
              /\ outcomes[r] = << >>
              /\ pc[r] \in Terminal => response[r].status = 400
        /\ pc[r] \in {"ParsingParams", "ValidatingCoordinates", "BuildingUrl"} =>
              calls[r] = 0
        /\ response[r].status = 400 => calls[r] = 0

C6_Witness ==
    \E r \in RequestIds :
        /\ query[r].lat = Some("0") /\ query[r].lon = Some("0")
        /\ pc[r] = "Failed"
        /\ response[r].status = 400
        /\ calls[r] = 0

\* The schema the granularity selects, applied to the decoded body.
Parsed(r) == IF Gran(query[r]) = "hourly" THEN ZHourly(data[r]) ELSE ZDaily(data[r])

\* C7: an ok response whose body fails the selected schema is answered with
\* 500 "Invalid schema" and the validation details, and no network call
\* follows the ok response.
C7_SchemaMismatch ==
    \A r \in RequestIds :
        /\ ( /\ pc[r] \in Terminal
             /\ data[r].kind # "none"
             /\ ~Parsed(r).success ) =>
              /\ response[r].status = 500
              /\ response[r].error = "Invalid schema"
              /\ response[r].details = Parsed(r).errors
              /\ response[r].details # << >>
        /\ data[r].kind # "none" =>
              /\ Last(outcomes[r]).kind = "ok"
              /\ calls[r] = Len(outcomes[r])
              /\ inflight[r] = 0

C7_Witness ==
    \E r \in RequestIds :
        /\ response[r].status = 500
        /\ response[r].error = "Invalid schema"
        /\ data[r].kind = "object"
        /\ calls[r] = 2

\* C8 as stated: on success the body of the 200 response equals the decoded
\* upstream payload, every top-level and nested field included.
C8_Verbatim ==
    \A r \in RequestIds :
        pc[r] = "Success" =>
            /\ response[r].status = 200
            /\ response[r].data = data[r]

\* C8 amended: on success the body of the 200 response is an object with
\* exactly one key, hourly or daily as the granularity selects, whose value is
\* that field of the upstream payload with all its fields unchanged; the other
\* top-level fields of the payload are not in the response.
C8_Amended ==
    \A r \in RequestIds :
        pc[r] = "Success" =>
            /\ response[r].status = 200
            /\ response[r].error = "" /\ response[r].message = ""
            /\ response[r].details = << >>
            /\ response[r].data =
                  IF Gran(query[r]) = "hourly"
                  THEN [kind |-> "object", hourly |-> data[r].hourly,
                        daily |-> NoSection, extras |-> {}]
                  ELSE [kind |-> "object", hourly |-> NoSection,
                        daily |-> data[r].daily, extras |-> {}]

C8_Witness ==
    \E r \in RequestIds :
        /\ pc[r] = "Success"
        /\ data[r].extras # {}
        /\ data[r].hourly.extras # {}
        /\ response[r].data.hourly.extras = data[r].hourly.extras

\* C9: if lat or lon is absent or empty the handler answers 400 "Missing
\* required parameters", whatever the other parameters are.
C9_MissingFirst ==
    \A r \in RequestIds :
        (MissingQ(query[r]) /\ pc[r] \notin {"Idle", "ParsingParams"}) =>
            /\ pc[r] = "Failed"
            /\ response[r].status = 400
            /\ response[r].error = "Missing required parameters: lat and lon"
            /\ calls[r] = 0

C9_Witness ==
    \E r \in RequestIds :
        /\ ~query[r].lat.present
        /\ query[r].lon = Some("invalid")
        /\ response[r].status = 400
        /\ response[r].error = "Missing required parameters: lat and lon"

\* lat and lon are both there and not empty.
BothPresent(q) == ~MissingQ(q)

\* C10 as stated: lat and lon both present and either one not a finite number
\* (non-numeric text, NaN, an infinity) is answered with 400 "Invalid
\* coordinates".
C10_NotFinite ==
    \A r \in RequestIds :
        ( /\ BothPresent(query[r])
          /\ Number(query[r].lat.value).kind # "num"
             \/ Number(query[r].lon.value).kind # "num"
          /\ pc[r] \notin {"Idle", "ParsingParams"} ) =>
            /\ response[r].status = 400
            /\ response[r].error = "Invalid coordinates: lat and lon must be numbers"

\* C10 amended: lat and lon both present and either one converting to NaN is
\* answered with 400 "Invalid coordinates"; an infinity is a number to this
\* check, and with neither value NaN it is answered with the 400 of the region
\* check.
C10_Amended ==
    \A r \in RequestIds :
        (BothPresent(query[r]) /\ pc[r] \notin {"Idle", "ParsingParams"}) =>
            /\ NonNumericQ(query[r]) =>
                  /\ pc[r] = "Failed"
                  /\ response[r].status = 400
                  /\ response[r].error = "Invalid coordinates: lat and lon must be numbers"
            /\ ( /\ ~NonNumericQ(query[r])
                 /\ Number(query[r].lat.value).kind = "inf"
                    \/ Number(query[r].lon.value).kind = "inf"
                 /\ pc[r] # "ValidatingCoordinates" ) =>
                  /\ pc[r] = "Failed"
                  /\ response[r].status = 400
                  /\ response[r].error =
                        "Coordinates must be within Australia or New Zealand bounds"

C10_Witness ==
    \E r \in RequestIds :
        /\ query[r].lat = Some("invalid")
        /\ query[r].lon = Some("174.7645")
        /\ response[r].error = "Invalid coordinates: lat and lon must be numbers"

RegionText == "Coordinates must be within Australia or New Zealand bounds"

\* C11: numeric lat and lon outside both rectangles are answered with 400
\* "... Australia or New Zealand bounds"; a point inside either rectangle
\* never gets that error.
C11_RegionCheck ==
    \A r \in RequestIds :
        LET q == query[r]
        IN  /\ ( /\ BothPresent(q) /\ ~NonNumericQ(q) /\ OutsideQ(q)
                 /\ pc[r] \notin {"Idle", "ParsingParams", "ValidatingCoordinates"} ) =>
                  /\ pc[r] = "Failed"
                  /\ response[r].status = 400
                  /\ response[r].error = RegionText
                  /\ calls[r] = 0
            /\ (pc[r] # "Idle" /\ ~OutsideQ(q)) =>
                  /\ response[r].error # RegionText
                  /\ response[r].message # RegionText

C11_Witness ==
    \E r \in RequestIds :
        /\ query[r].lat = Some("-33.86880")
        /\ query[r].lon = Some("174.7645")
        /\ response[r].status = 400
        /\ response[r].error = RegionText

\* All three attempts of request r are over and none was ok.
Exhausted(r) == Len(outcomes[r]) = 3 /\ OkAttempts(r) = {}

\* The words of the messages an error of the handler can carry.
Words(m) ==
    CASE m = "All retry attempts failed" -> <<"All", "retry", "attempts", "failed">>
      [] m = "All 3 retry attempts failed" -> <<"All", "3", "retry", "attempts", "failed">>
      [] m = "Network error" -> <<"Network", "error">>
      [] m = "fetch failed" -> <<"fetch", "failed">>
      [] OTHER -> << >>

\* C12 as stated: once all attempts are exhausted fetchWithRetry fails with an
\* aggregate error whose message reports the attempt count (3).
C12_ReportsCount ==
    \A r \in RequestIds :
        (Exhausted(r) /\ pc[r] \in Terminal) =>
            \E i \in 1..Len(Words(response[r].message)) :
                Words(response[r].message)[i] = "3"

\* C12 amended: once all attempts are exhausted fetchWithRetry fails; after a
\* final non-ok response the error is the fixed Error "All retry attempts
\* failed", which names no attempt count, and after a final transport error
\* it is that error itself.
C12_Amended ==
    \A r \in RequestIds :
        (Exhausted(r) /\ pc[r] \in Terminal) =>
            /\ pc[r] = "Failed"
            /\ calls[r] = 3
            /\ Last(outcomes[r]).kind = "nonok" =>
                  /\ response[r].status = 502
                  /\ response[r].message = "All retry attempts failed"
            /\ (Last(outcomes[r]).kind = "throw" /\ Last(outcomes[r]).error.isError) =>
                  /\ response[r].status = 502
                  /\ response[r].message = Last(outcomes[r]).error.message
            /\ (Last(outcomes[r]).kind = "throw" /\ ~Last(outcomes[r]).error.isError) =>
                  response[r].status = 500

C12_Witness ==
    \E r \in RequestIds :
        /\ Exhausted(r)
        /\ outcomes[r][1].kind = "throw"
        /\ outcomes[r][3].kind = "nonok"
        /\ response[r].message = "All retry attempts failed"

SchemaCalls(r) == SelectSeq(invoked[r], LAMBDA c : c.fn \in {"ZHourly", "ZDaily"})

BuildCalls(r) == SelectSeq(invoked[r], LAMBDA c : c.fn = "buildUrl")

\* C13: a decoded payload is validated with exactly one schema: ZHourly when
\* gran is 'hourly' or absent, ZDaily when gran is 'daily'; the other schema
\* is not invoked, and buildUrl gets the same granularity.
C13_OneSchema ==
    \A r \in RequestIds :
        LET q == query[r]
        IN  /\ Len(SchemaCalls(r)) <= 1
            /\ Len(BuildCalls(r)) <= 1
            /\ (data[r].kind # "none" /\ pc[r] \in Terminal) => Len(SchemaCalls(r)) = 1
            /\ SchemaCalls(r) # << >> =>
                  /\ data[r].kind # "none"
                  /\ OkAttempts(r) # {}
                  /\ (~q.gran.present \/ q.gran.value = "hourly") =>
                        SchemaCalls(r)[1].fn = "ZHourly"
                  /\ (q.gran.present /\ q.gran.value = "daily") =>
                        SchemaCalls(r)[1].fn = "ZDaily"
            /\ BuildCalls(r) # << >> =>
                  BuildCalls(r)[1].gran = IF q.gran.present THEN q.gran.value ELSE "hourly"

C13_Witness ==
    \E r \in RequestIds :
        /\ query[r].gran = Some("daily")
        /\ pc[r] = "Success"
        /\ Len(invoked[r]) = 2
        /\ invoked[r][1].fn = "buildUrl" /\ invoked[r][1].gran = "daily"
        /\ invoked[r][2].fn = "ZDaily"

Caught(resp, message) ==
    /\ resp.status = 502
    /\ resp.error = "Failed to fetch weather data"
    /\ resp.message = message

\* C19: an Error thrown after parameter validation (by buildUrl, by the last
\* fetch attempt, or while the body is decoded) is answered with 502 'Failed
\* to fetch weather data' and the error's message; every finished request has
\* a response.
C19_ErrorsCaught ==
    \A r \in RequestIds :
        LET q == query[r]
            o == outcomes[r]
        IN  /\ pc[r] \in Terminal =>
                  /\ response[r] # NoResponse
                  /\ response[r].status \in {200, 400, 500, 502}
            /\ (pc[r] \in Terminal /\ OkAttempts(r) # {} /\ data[r] = NoPayload) =>
                  /\ pc[r] = "Failed"
                  /\ Caught(response[r], "Unexpected token < in JSON at position 0")
            /\ (pc[r] \in Terminal /\ Len(o) = maxAttempts /\ Last(o).kind = "throw"
                  /\ Last(o).error.isError) =>
                  /\ pc[r] = "Failed"
                  /\ Caught(response[r], Last(o).error.message)
            /\ (BuildCalls(r) # << >> /\ pc[r] \in Terminal
                  /\ buildUrl(Coords(q), BuildCalls(r)[1].gran, BuildCalls(r)[1].params).threw) =>
                  /\ pc[r] = "Failed"
                  /\ Caught(response[r], RegionText)

C19_Witness ==
    \E r \in RequestIds :
        /\ pc[r] = "Failed"
        /\ Len(outcomes[r]) = 2
        /\ Last(outcomes[r]).kind = "ok"
        /\ data[r] = NoPayload
        /\ response[r].message = "Unexpected token < in JSON at position 0"

\* The key a schema requires.
SchemaKey(fn) == IF fn = "ZHourly" THEN "hourly" ELSE "daily"

\* p has an object under key g whose time is an array of strings.
WellFormed(p, g) ==
    /\ p.kind = "object"
    /\ p[g].kind = "object"
    /\ p[g].time.kind = "array"
    /\ \A i \in 1..Len(p[g].time.elems) : p[g].time.elems[i].type = "string"

\* C14: the schema of granularity g accepts a payload exactly when the payload
\* is an object whose field g is an object whose time is an array of strings
\* (possibly empty); further keys at either level and the other section do
\* not matter, and a rejection carries at least one error.
C14_SchemaAccepts ==
    (lib.fn \in {"ZHourly", "ZDaily"} /\ lib.applied) =>
        /\ lib.result.success <=> WellFormed(lib.input, SchemaKey(lib.fn))
        /\ lib.result.success => lib.result.errors = << >>
        /\ ~lib.result.success => lib.result.errors # << >>

C14_Witness ==
    /\ lib.fn = "ZDaily"
    /\ lib.applied
    /\ lib.input.kind = "object"
    /\ lib.input.extras # {}
    /\ lib.input.daily.extras # {}
    /\ lib.input.daily.time.elems = << >>
    /\ lib.input.hourly.kind = "null"
    /\ lib.result.success

\* The point is in the Australia or in the New Zealand rectangle.
InRegion(c) ==
    \/ Within(c.lat, -436000, -107000) /\ Within(c.lon, 1133000, 1536000)
    \/ Within(c.lat, -473000, -344000) /\ Within(c.lon, 1664000, 1786000)

\* C15: buildUrl throws 'Coordinates must be within Australia or New Zealand
\* bounds' and builds no URL for a point outside both rectangles, whatever
\* the granularity and the options; for a point inside it returns a URL.
C15_RegionGuard ==
    (lib.fn = "buildUrl" /\ lib.applied) =>
        IF InRegion(lib.coords)
        THEN /\ ~lib.result.threw
             /\ lib.result.url # NoUrl
             /\ lib.result.url.base = BASE
        ELSE /\ lib.result.threw
             /\ lib.result.error = Error(RegionText)
             /\ lib.result.url = NoUrl

C15_Witness ==
    /\ lib.fn = "buildUrl"
    /\ lib.applied
    /\ lib.coords = [lat |-> Num(-106999), lon |-> Num(1536000)]
    /\ lib.gran = "daily"
    /\ lib.params.vars.present
    /\ lib.result.threw

\* text is the names of list with a comma between neighbours.
CommaJoined(list, text) ==
    /\ Len(text) = IF list = << >> THEN 0 ELSE 2 * Len(list) - 1
    /\ \A i \in 1..Len(list) : text[2 * i - 1] = list[i][1]
    /\ \A i \in 1..(Len(list) - 1) : text[2 * i] = ","

\* C16: for a point inside a region the URL has the fixed base, latitude,
\* longitude, timezone (tz, else 'auto'), the parameter of the granularity
\* with the comma-joined variables (the default list when vars is omitted,
\* the empty value for the empty list) and not the other one, and start_date
\* and end_date only when the option is supplied.
C16_UrlParameters ==
    (lib.fn = "buildUrl" /\ lib.applied /\ InRegion(lib.coords)) =>
        LET u == lib.result.url
            ps == lib.params
            other == IF lib.gran = "hourly" THEN "daily" ELSE "hourly"
            defaults == IF lib.gran = "hourly"
                        THEN <<"temperature_2m", ",", "precipitation", ",", "windspeed_10m">>
                        ELSE <<"temperature_2m_max", ",", "temperature_2m_min", ",",
                               "precipitation_sum", ",", "windspeed_10m_max">>
        IN  /\ u.base = "https://api.open-meteo.com/v1/forecast"
            /\ Number(u.latitude) = lib.coords.lat
            /\ Number(u.longitude) = lib.coords.lon
            /\ u.timezone = IF ps.tz.present THEN ps.tz.value ELSE "auto"
            /\ u[lib.gran].present
            /\ IF ps.vars.present
               THEN CommaJoined(ps.vars.value, u[lib.gran].value)
               ELSE u[lib.gran].value = defaults
            /\ ~u[other].present
            /\ u.start_date.present => (ps.start.present /\ u.start_date = ps.start)
            /\ u.end_date.present => (ps.end.present /\ u.end_date = ps.end)
            /\ (ps.start.present /\ ps.start.value # "") => u.start_date = ps.start
            /\ (ps.end.present /\ ps.end.value # "") => u.end_date = ps.end

C16_Witness ==
    /\ lib.fn = "buildUrl"
    /\ lib.applied
    /\ lib.coords = [lat |-> Num(-343999), lon |-> Num(1133000)]
    /\ lib.gran = "daily"
    /\ lib.params.vars = Some(<< >>)
    /\ lib.params.start = Some("")
    /\ lib.result.url.daily = Some(<< >>)
    /\ ~lib.result.url.hourly.present
    /\ ~lib.result.url.start_date.present
    /\ lib.result.url.end_date.present

\* Everything the handler holds for request r.
Slice(r) ==
    <<query[r], pc[r], attempt[r], calls[r], inflight[r], slept[r], outcomes[r],
      res[r], url[r], data[r], response[r], invoked[r]>>

\* Two finished requests with the same query and the same upstream outcomes
\* (the settled attempts and the decoded body) have the same response and
\* made the same number of fetch calls.
OwnInputsOnly ==
    \A r, s \in RequestIds :
        ( /\ pc[r] \in Terminal /\ pc[s] \in Terminal
          /\ query[r] = query[s]
          /\ outcomes[r] = outcomes[s]
          /\ data[r] = data[s] ) =>
            /\ response[r] = response[s]
            /\ calls[r] = calls[s]
            /\ slept[r] = slept[s]

\* An unfinished request can take a step whatever the others are doing, a
\* backoff sleep included.
NeverBlocked ==
    \A r \in RequestIds :
        pc[r] \notin Terminal \cup {"Idle"} => ENABLED StepConc(r)

\* A step changes what is held for one request only.
OneSliceChanges ==
    \A r, s \in RequestIds :
        (r # s /\ Slice(r)' # Slice(r)) => Slice(s)' = Slice(s)

\* C18: concurrent requests share no mutable state: a request's response and
\* number of fetch attempts depend only on its own query and its own upstream
\* outcomes, every step touches one request only, and a request in a backoff
\* sleep never keeps another from taking its next step.
C18_NoSharedState ==
    /\ [](OwnInputsOnly /\ NeverBlocked)
    /\ [][OneSliceChanges]_vars

C18_Witness ==
    /\ pc[1] = "Sleeping"
    /\ slept[1] = <<1000>>
    /\ pc[2] = "Success"
    /\ calls[2] = 1
    /\ query[1] = query[2]
    /\ ENABLED SleepDone(1)

\* The start and end the page works with: the parameter, else the default.
DashRange ==
    [start |-> IF dash.params.start.present THEN dash.params.start.value
                                            ELSE dash.today,
     end   |-> IF dash.params.end.present THEN dash.params.end.value
                                          ELSE SevenDaysAfter(dash.today)]

\* start or end is unparseable, start is after end, or the span is over 30 days.
BadRange(range) ==
    LET s == DateParse(range.start)
        e == DateParse(range.end)
    IN  \/ ~s.valid
        \/ ~e.valid
        \/ s.t > e.t
        \/ e.t - s.t > 30 * DayLength

\* The cities for which fetch was called.
Fetched == { i \in DOMAIN dash.cities : dash.cities[i].fetched }

\* C20: with an unparseable start or end, start after end or a span of more
\* than 30 days the page renders the date-range error and fetches for no
\* city; whenever a fetch was issued the range is parseable, ordered and at
\* most 30 days long.
C20_DateRangeFirst ==
    (dash.pc \notin {"none", "Parsing"}) =>
        /\ BadRange(DashRange) =>
              /\ dash.pc = "DateRangeError"
              /\ ~dash.validation.isValid
              /\ dash.validation.error # ""
              /\ Fetched = {}
              /\ dash.cities = << >>
        /\ Fetched # {} =>
              /\ ~BadRange(DashRange)
              /\ \A i \in Fetched :
                    /\ dash.cities[i].qs.start = DashRange.start
                    /\ dash.cities[i].qs.end = DashRange.end
        /\ dash.pc = "DateRangeError" => BadRange(DashRange)

C20_Witness ==
    /\ dash.pc = "DateRangeError"
    /\ dash.params.city = Some(<<"auckland", ",", "sydney">>)
    /\ dash.params.start = Some("2025-01-01")
    /\ dash.params.end = Some("2025-01-31T00:00:01Z")
    /\ dash.validation.error = "Date range exceeds maximum of 30 days"
    /\ dash.validation.days = 31
    /\ Fetched = {}

\* C17: isValidAU_NZCoords is true exactly for -43.6 <= lat <= -10.7 with
\* 113.3 <= lon <= 153.6 and for -47.3 <= lat <= -34.4 with 166.4 <= lon <=
\* 178.6, the edges included, and false for everything else, NaN and the
\* infinities included.
C17_Rectangles ==
    (lib.fn = "isValidAU_NZCoords" /\ lib.applied) =>
        LET lat == lib.coords.lat
            lon == lib.coords.lon
            finite == lat.kind = "num" /\ lon.kind = "num"
            australia == /\ finite
                         /\ -436000 <= lat.v /\ lat.v <= -107000
                         /\ 1133000 <= lon.v /\ lon.v <= 1536000
            newZealand == /\ finite
                          /\ -473000 <= lat.v /\ lat.v <= -344000
                          /\ 1664000 <= lon.v /\ lon.v <= 1786000
        IN  /\ lib.result \in BOOLEAN
            /\ lib.result <=> (australia \/ newZealand)
            /\ ~finite => ~lib.result

C17_Witness ==
    /\ lib.fn = "isValidAU_NZCoords"
    /\ lib.applied
    /\ lib.coords = [lat |-> Num(-473000), lon |-> Num(1786000)]
    /\ lib.result

\* The five preset ids, spelled as in the claim.
FivePresets ==
    { <<"auckland">>, <<"sydney">>, <<"melbourne">>, <<"brisbane">>, <<"wellington">> }

\* C21: isValidLocationId(id) is true and getLocationById(id) is a Location
\* exactly when id is one of the five preset ids; for every other string
\* the one is false and the other undefined.
C21_PresetIdsOnly ==
    lib.fn = "locations" =>
        /\ lib.validApplied => (lib.valid <=> lib.validId \in FivePresets)
        /\ lib.getApplied =>
              /\ lib.location.found <=> lib.getId \in FivePresets
              /\ lib.location.found => lib.location.hasCoords

\* The place of a position of the handler in the order ParsingParams,
\* Validating Coordinates, BuildingUrl, Fetching (the attempts, the sleeps
\* and the reading of the body), ValidatingSchema, Success | Failed.
Rank(p) ==
    CASE p = "Idle"                  -> 0
      [] p = "ParsingParams"         -> 1
      [] p = "ValidatingCoordinates" -> 2
      [] p = "BuildingUrl"           -> 3
      [] p \in {"Fetching", "AwaitFetch", "Sleeping", "Decoding"} -> 4
      [] p = "ValidatingSchema"      -> 5
      [] p \in Terminal              -> 6

\* One step of request r: it has not ended, and it moves to the next state
\* of the order, to Failed, or stays inside Fetching.
OrderedStep(r) ==
    /\ pc[r] \notin Terminal \cup {"Idle"}
    /\ \/ Rank(pc'[r]) = Rank(pc[r]) + 1
       \/ pc'[r] = "Failed"
       \/ Rank(pc[r]) = 4 /\ Rank(pc'[r]) = 4
    /\ pc'[r] = "Success" => pc[r] = "ValidatingSchema"

\* C22: a request passes through the handler states in their order only and
\* ends in Success or Failed; after that nothing of the request changes (no
\* step, no network call), and only Fetching is stayed in for several steps.
C22_StateOrder ==
    [][\A r \in RequestIds : Slice(r)' # Slice(r) => OrderedStep(r)]_vars

C22_Witness ==
    \E r \in RequestIds :
        /\ pc[r] = "Success"
        /\ calls[r] = 3
        /\ slept[r] = <<1000, 2000>>
        /\ Len(invoked[r]) = 2

\* C23: the attempts of one request are strictly sequential: at most one
\* fetch is in flight, a new one starts only when every earlier one has
\* settled, and each earlier (failed) attempt was followed by a sleep that
\* has elapsed.
C23_Sequential ==
    \A r \in RequestIds :
        /\ inflight[r] \in {0, 1}
        /\ inflight[r] = 1 <=> pc[r] = "AwaitFetch"
        /\ calls[r] = Len(outcomes[r]) + inflight[r]
        /\ inflight[r] = 1 =>
              /\ OkAttempts(r) = {}
              /\ Len(slept[r]) = calls[r] - 1
              /\ attempt[r] = calls[r] - 1
        /\ pc[r] = "Sleeping" =>
              /\ inflight[r] = 0
              /\ Len(slept[r]) = calls[r]

C23_Witness ==
    \E r \in RequestIds :
        /\ pc[r] = "AwaitFetch"
        /\ inflight[r] = 1
        /\ calls[r] = 3
        /\ Len(outcomes[r]) = 2
        /\ slept[r] = <<1000, 2000>>

\* C24: if every fetch and every sleep completes, every request reaches
\* Success or Failed, with one response that never changes afterwards,
\* after at most 3 fetch calls and 2 sleeps; the loop of fetchWithRetry runs
\* at most maxAttempts times.
C24_Terminates ==
    /\ \A r \in ConcRequests : (pc[r] = "ParsingParams") ~> (pc[r] \in Terminal)
    /\ [](\A r \in RequestIds :
            /\ calls[r] <= 3
            /\ Len(slept[r]) <= 2
            /\ attempt[r] <= maxAttempts
            /\ pc[r] \in Terminal <=> response[r] # NoResponse)
    /\ [][\A r \in RequestIds :
            response[r] # NoResponse => response'[r] = response[r]]_vars

C24_Witness ==
    \E r \in RequestIds :
        /\ pc[r] = "Failed"
        /\ calls[r] = maxAttempts
        /\ Len(slept[r]) = maxAttempts - 1
        /\ attempt[r] = maxAttempts
        /\ response[r].status = 502

\* C25: the status of a response is 200, 400, 500 or 502; it is 200 only
\* if an attempt of the request returned an ok response and the decoded
\* payload passes the schema gran selects; it is 400 only if no fetch was
\* attempted.
C25_Statuses ==
    \A r \in RequestIds :
        response[r] # NoResponse =>
            /\ response[r].status \in {200, 400, 500, 502}
            /\ response[r].status = 200 =>
                  /\ pc[r] = "Success"
                  /\ OkAttempts(r) # {}
                  /\ WellFormed(data[r], IF Gran(query[r]) = "hourly" THEN "hourly"
                                                                       ELSE "daily")
            /\ response[r].status = 400 =>
                  /\ calls[r] = 0
                  /\ outcomes[r] = << >>

C25_Witness ==
    \E r \in RequestIds :
        /\ response[r].status = 200
        /\ query[r].gran = Some("daily")
        /\ calls[r] = 2
        /\ outcomes[r][1].kind = "nonok"
        /\ data[r].daily.time.elems # << >>

\* gran is present and is not 'hourly'.
NotHourly(q) == q.gran.present /\ q.gran.value # "hourly"

\* gran is present and is neither 'hourly' nor 'daily'.
Unrecognised(q) == q.gran.present /\ q.gran.value \notin {"hourly", "daily"}

\* C26: no request is rejected for its gran: with a gran other than 'hourly'
\* a 400 has one of the three coordinate reasons, the payload is validated
\* with the daily schema, and for a gran that is neither 'hourly' nor 'daily'
\* the upstream URL has neither an hourly nor a daily parameter.
C26_AnyGran ==
    \A r \in RequestIds :
        LET q == query[r]
        IN  /\ (NotHourly(q) /\ response[r].status = 400) =>
                  (MissingQ(q) \/ NonNumericQ(q) \/ OutsideQ(q))
            /\ (NotHourly(q) /\ ~MissingQ(q) /\ ~NonNumericQ(q) /\ ~OutsideQ(q)
                  /\ pc[r] \in Terminal) => calls[r] >= 1
            /\ (NotHourly(q) /\ SchemaCalls(r) # << >>) =>
                  SchemaCalls(r)[1].fn = "ZDaily"
            /\ (NotHourly(q) /\ response[r].error = "Invalid schema") =>
                  ~WellFormed(data[r], "daily")
            /\ (NotHourly(q) /\ response[r].status = 200) =>
                  WellFormed(data[r], "daily")
            /\ (Unrecognised(q) /\ url[r] # NoUrl) =>
                  /\ ~url[r].hourly.present
                  /\ ~url[r].daily.present

C26_Witness ==
    \E r \in RequestIds :
        /\ query[r].gran = Some("weekly")
        /\ pc[r] = "Success"
        /\ url[r].base = BASE
        /\ ~url[r].hourly.present
        /\ ~url[r].daily.present
        /\ SchemaCalls(r)[1].fn = "ZDaily"

\* The names in the text of a vars parameter, in their order, each as a
\* one-name segment (no two names of the model's inputs are adjacent).
Names(text) ==
    LET names == SelectSeq(text, LAMBDA t : t # ",")
    IN  [i \in 1..Len(names) |-> << names[i] >>]

\* C27: buildUrl gets no variable list exactly when the vars parameter is
\* absent, and then the defaults of the granularity go upstream; a present
\* vars gives its non-empty comma-separated segments in order, so an empty
\* or commas-only vars gives the empty list and an empty-valued hourly or
\* daily parameter.
C27_VarsParsing ==
    \A r \in RequestIds :
        BuildCalls(r) # << >> =>
            LET v == query[r].vars
                passed == BuildCalls(r)[1].params.vars
                g == BuildCalls(r)[1].gran
            IN  /\ ~passed.present <=> ~v.present
                /\ v.present => passed.value = Names(v.value)
                /\ (g \in {"hourly", "daily"} /\ url[r] # NoUrl) =>
                      /\ url[r][g].present
                      /\ ~v.present =>
                            url[r][g].value =
                               IF g = "hourly"
                               THEN <<"temperature_2m", ",", "precipitation", ",",
                                      "windspeed_10m">>
                               ELSE <<"temperature_2m_max", ",", "temperature_2m_min", ",",
                                      "precipitation_sum", ",", "windspeed_10m_max">>
                      /\ v.present => CommaJoined(Names(v.value), url[r][g].value)
                      /\ (v.present /\ Names(v.value) = << >>) => url[r][g].value = << >>

C27_Witness ==
    \E r \in RequestIds :
        /\ query[r].vars = Some(<<",">>)
        /\ query[r].gran = Some("daily")
        /\ BuildCalls(r) # << >>
        /\ BuildCalls(r)[1].params.vars = Some(<< >>)
        /\ url[r].daily = Some(<< >>)
        /\ calls[r] = 1

\* The sum of a sequence of numbers.
RECURSIVE SumSeq(_)
SumSeq(seq) == IF seq = << >> THEN 0 ELSE seq[1] + SumSeq(Tail(seq))

\* C28: a request sleeps 0, 1000 or 3000 ms in total, never more, and the
\* 4000 ms entry of the delay table is never slept.
C28_TotalBackoff ==
    \A r \in RequestIds :
        /\ SumSeq(slept[r]) \in {0, 1000, 3000}
        /\ SumSeq(slept[r]) <= 3000
        /\ \A i \in 1..Len(slept[r]) : slept[r][i] # 4000
        /\ \A i \in 1..Len(slept[r]) : slept[r][i] = 1000 * (2 ^ (i - 1))

C28_Witness ==
    \E r \in RequestIds :
        /\ pc[r] = "Failed"
        /\ SumSeq(slept[r]) = 3000
        /\ response[r].status = 500
        /\ Len(outcomes[r]) = 3
        /\ ~Last(outcomes[r]).error.isError

\* The ids of a sequence of fetchCityWeather calls.
Ids(cs) == [i \in 1..Len(cs) |-> cs[i].id]

\* C29: one fetch per requested city is started before any of them settles;
\* a city whose id is no preset causes no network call; and the rendered
\* list is, in the requested order, exactly the cities with a preset id whose
\* fetch returned an ok response.
C29_RenderedCities ==
    (dash.pc \in {"AwaitingAll", "Rendered"}) =>
        /\ \A i \in DOMAIN dash.cities :
              dash.cities[i].fetched <=> dash.cities[i].id \in FivePresets
        /\ dash.pc = "Rendered" =>
              Ids(dash.weatherData) =
                 Ids(SelectSeq(dash.cities,
                               LAMBDA c : c.id \in FivePresets /\ c.ok))

\* C30: every preset location is inside a region, so the request the
\* dashboard issues for a preset city passes the handler's region check (no
\* out-of-region 400) and buildUrl returns a URL for it.
C30_PresetsInRegion ==
    /\ \A id \in FivePresets :
          /\ getLocationById(id).hasCoords
          /\ InRegion(getLocationById(id))
    /\ \A r \in RequestIds :
          pc[r] # "Idle" =>
              /\ response[r].status # 400
              /\ response[r].error # RegionText
              /\ response[r].message # RegionText
              /\ pc[r] \notin {"ParsingParams", "ValidatingCoordinates", "BuildingUrl"} =>
                    /\ BuildCalls(r) # << >>
                    /\ url[r] # NoUrl
                    /\ InRegion([lat |-> Number(url[r].latitude),
                                 lon |-> Number(url[r].longitude)])

C30_Witness ==
    \E r \in RequestIds :
        /\ query[r].lat = Some("-41.2865")
        /\ query[r].lon = Some("174.7762")
        /\ url[r].latitude = "-41.2865"
        /\ pc[r] = "Success"

=============================================================================
